---- MODULE Spec2Model ----
(***************************************************************************)
(* A model of bod (src/src/main.rs): a terminal dashboard that lists the   *)
(* project directories under a base directory as tabs, lists one project's *)
(* entries, moves a cursor over them and (is meant to) open the selected   *)
(* entry in an editor.                                                     *)
(*                                                                         *)
(* Strings are sequences of character codes (so that String::cmp, Path     *)
(* joins and starts_with are computed, not assumed).  Option<T> is a       *)
(* sequence of length at most one.  io::Result is a record with an ok      *)
(* field.  The filesystem is chosen in Init and never changes; each read   *)
(* of a directory may return its entries in any order and may lose         *)
(* entries to per-entry read errors.                                       *)
(***************************************************************************)
EXTENDS Integers, Sequences, FiniteSets, TLC

VARIABLES
    fs,                     \* the directory tree under the expanded base path
    home,                   \* dirs::home_dir(): None or Some(path)
    input,                  \* the keyboard: free typing, or a fixed key sequence
    pc,                     \* main's position
    raw_mode,               \* terminal raw mode is enabled
    alt_screen,             \* terminal is on the alternate screen
    tabs,                   \* App.tabs
    current_tab,            \* App.current_tab
    show_content,           \* App.show_content
    show_editor_selection,  \* App.show_editor_selection
    selected_editor,        \* App.selected_editor
    current_dir_contents,   \* App.current_dir_contents
    selected_item,          \* App.selected_item
    show_confirmation,      \* App.show_confirmation
    spawned,                \* arguments of every Command::spawn so far
    self_path,              \* the Path that expand_home is called on
    expanded                \* None, or Some(the PathBuf expand_home returned)

app == <<tabs, current_tab, show_content, show_editor_selection, selected_editor,
         current_dir_contents, selected_item, show_confirmation>>
term == <<raw_mode, alt_screen>>
env == <<fs, home, self_path, expanded>>
vars == <<fs, home, input, pc, raw_mode, alt_screen, tabs, current_tab, show_content,
          show_editor_selection, selected_editor, current_dir_contents, selected_item,
          show_confirmation, spawned, self_path, expanded>>

-----------------------------------------------------------------------------
(* Bounds of the model *)

\* project directories under the base directory
MaxTabs == 2
\* entries in one project directory
MaxEntries == 2
\* largest cursor value followed (a build without overflow checks lets it grow)
MaxCursor == 3
\* entries in one directory of the listing-order specification
MaxListing == 3
\* bytes in a path given to expand_home
MaxPathLen == 3

-----------------------------------------------------------------------------
(* Option and strings *)

None == <<>>
Some(x) == <<x>>

\* "~/Documents/rakesh/projects"
BASE_PATH == <<126, 47, 68, 111, 99, 117, 109, 101, 110, 116, 115, 47,
               114, 97, 107, 101, 115, 104, 47, 112, 114, 111, 106, 101, 99, 116, 115>>

\* str::starts_with
starts_with(s, prefix) ==
    /\ Len(s) >= Len(prefix)
    /\ SubSeq(s, 1, Len(prefix)) = prefix

\* Path::join on Unix: an absolute argument replaces the path, otherwise it is
\* appended after a separator (none is added to an empty path or after "/")
join(base, p) ==
    IF starts_with(p, <<47>>) THEN p
    ELSE IF base = <<>> \/ base[Len(base)] = 47 THEN base \o p
    ELSE base \o <<47>> \o p

\* Path::to_str: Some(the text) when the path is valid UTF-8.  The paths of the model
\* hold ASCII bytes and the byte 255, which no UTF-8 text contains
to_str(p) == IF \A i \in 1 .. Len(p) : p[i] < 128 THEN Some(p) ELSE None

\* an expand_home that slices from the separator on (&path_str[1..])
expand_home_keeps_slash(p, h) ==
    IF to_str(p) # None /\ starts_with(to_str(p)[1], <<126, 47>>) /\ h # None
    THEN join(h[1], SubSeq(p, 2, Len(p)))
    ELSE p

\* PathExt::expand_home; it has no Err outcome
expand_home(p, h) ==
    IF to_str(p) # None /\ starts_with(to_str(p)[1], <<126, 47>>) /\ h # None
    THEN join(h[1], SubSeq(to_str(p)[1], 3, Len(p)))
    ELSE p

\* String::cmp: lexicographic on the bytes; -1 Less, 0 Equal, 1 Greater
RECURSIVE StrCmp(_, _)
StrCmp(a, b) ==
    IF a = <<>> /\ b = <<>> THEN 0
    ELSE IF a = <<>> THEN -1
    ELSE IF b = <<>> THEN 1
    ELSE IF Head(a) < Head(b) THEN -1
    ELSE IF Head(a) > Head(b) THEN 1
    ELSE StrCmp(Tail(a), Tail(b))

-----------------------------------------------------------------------------
(* Directory entries and the listing order *)

DirEntry(name, is_dir) == [name |-> name, is_dir |-> is_dir]

\* a comparator that forgets the directories-first rule
CmpNameOnly(a, b) == StrCmp(a.name, b.name)

\* the closure given to sort_by
Cmp(a, b) ==
    IF a.is_dir /\ ~b.is_dir THEN -1
    ELSE IF ~a.is_dir /\ b.is_dir THEN 1
    ELSE StrCmp(a.name, b.name)

\* x placed into the sorted sequence s after every element not greater than it
RECURSIVE Insert(_, _)
Insert(x, s) ==
    IF s = <<>> THEN <<x>>
    ELSE IF Cmp(x, Head(s)) < 0 THEN <<x>> \o s
    ELSE <<Head(s)>> \o Insert(x, Tail(s))

\* Vec::sort_by: a stable sort
RECURSIVE sort_by(_)
sort_by(s) ==
    IF s = <<>> THEN <<>>
    ELSE Insert(s[Len(s)], sort_by(SubSeq(s, 1, Len(s) - 1)))

-----------------------------------------------------------------------------
(* The filesystem under the expanded base path *)

\* "p1", "p2", ...: the name of the k-th project directory
ProjName(k) == <<112, 48 + k>>

\* the entries project directories are filled from: b/ B a aB/
EntryUniverse ==
    << DirEntry(<<98>>, TRUE), DirEntry(<<66>>, FALSE),
       DirEntry(<<97>>, FALSE), DirEntry(<<97, 66>>, TRUE) >>

\* the m entries of the k-th project directory
ProjEntries(k, m) ==
    { EntryUniverse[((k + j) % Len(EntryUniverse)) + 1] : j \in 0 .. (m - 1) }

\* what the k-th project directory can be: unreadable, or holding 0..MaxEntries entries
ProjectDirs(k) ==
    { [name |-> ProjName(k), readable |-> FALSE, contents |-> {}] }
    \cup { [name |-> ProjName(k), readable |-> TRUE, contents |-> ProjEntries(k, m)] :
           m \in 0 .. MaxEntries }

AllProjectDirs == UNION { ProjectDirs(k) : k \in 1 .. MaxTabs }

\* the base directory is unreadable, or holds n project directories and a plain file
FileSystems ==
    { [base_ok |-> FALSE, projects |-> <<>>] }
    \cup UNION { { [base_ok |-> TRUE, projects |-> f] :
                   f \in { g \in [1 .. n -> AllProjectDirs] :
                           \A i \in 1 .. n : g[i] \in ProjectDirs(i) } } :
                 n \in 0 .. MaxTabs }

\* the entries of the base directory: the project directories and the file "R"
BaseEntries(f) ==
    { DirEntry(f.projects[i].name, TRUE) : i \in 1 .. Len(f.projects) }
    \cup { DirEntry(<<82>>, FALSE) }

\* the project directory called name
ProjectDir(f, name) ==
    CHOOSE d \in { f.projects[i] : i \in 1 .. Len(f.projects) } : d.name = name

\* fs::read_dir iterated with `if let Ok(entry) = entry`: the entries that came back
\* Ok, in the order the filesystem gave them; an entry whose read failed is skipped
ReadDirYields(S) ==
    UNION { { y \in [1 .. k -> S] : \A i, j \in 1 .. k : i # j => y[i] # y[j] } :
            k \in 0 .. Cardinality(S) }

\* the names of the directories among the entries read, in the order read
RECURSIVE DirNames(_)
DirNames(y) ==
    IF y = <<>> THEN <<>>
    ELSE IF Head(y).is_dir THEN <<Head(y).name>> \o DirNames(Tail(y))
    ELSE DirNames(Tail(y))

-----------------------------------------------------------------------------
(* impl App *)

To(ok, contents) == [ok |-> ok, contents |-> contents]

\* an update that skips an unreadable project directory instead of failing
update_skips_unreadable(f, t, ct, old) ==
    IF t = <<>> THEN { To(TRUE, old) }
    ELSE LET d == ProjectDir(f, t[ct + 1]) IN
         IF ~d.readable THEN { To(TRUE, <<>>) }
         ELSE { To(TRUE, sort_by(y)) : y \in ReadDirYields(d.contents) }
              \cup (IF d.contents # {} THEN { To(FALSE, old) } ELSE {})

\* App::update_current_dir_contents: its outcomes, as the Result and the value of
\* self.current_dir_contents afterwards
update_current_dir_contents(f, t, ct, old) ==
    IF t = <<>> THEN { To(TRUE, old) }
    ELSE LET d == ProjectDir(f, t[ct + 1]) IN
         IF ~d.readable THEN { To(FALSE, old) }                 \* read_dir(..)?
         ELSE { To(TRUE, sort_by(y)) : y \in ReadDirYields(d.contents) }
              \cup (IF d.contents # {} THEN { To(FALSE, old) }  \* entry.file_type()?
                    ELSE {})

\* App::new: its outcomes, as the Result and the fields of the App built
new(f) ==
    IF ~f.base_ok THEN { [ok |-> FALSE, tabs |-> <<>>, contents |-> <<>>] }
    ELSE { [ok |-> FALSE, tabs |-> <<>>, contents |-> <<>>] }   \* entry.file_type()?
         \cup UNION { { [ok |-> o.ok, tabs |-> DirNames(y), contents |-> o.contents] :
                        o \in update_current_dir_contents(f, DirNames(y), 0, <<>>) } :
                      y \in ReadDirYields(BaseEntries(f)) }

\* a switch_tab that resets the cursor before it checks the index
switch_tab_resets_first(f, t, ct, sel, old, tab_index) ==
    IF tab_index < Len(t)
    THEN { [ok |-> o.ok, current_tab |-> tab_index, selected_item |-> None,
            contents |-> o.contents] :
           o \in update_current_dir_contents(f, t, tab_index, old) }
    ELSE { [ok |-> TRUE, current_tab |-> ct, selected_item |-> None, contents |-> old] }

\* App::switch_tab: its outcomes, as the Result and the fields it leaves
switch_tab(f, t, ct, sel, old, tab_index) ==
    IF tab_index < Len(t)
    THEN { [ok |-> o.ok, current_tab |-> tab_index, selected_item |-> None,
            contents |-> o.contents] :
           o \in update_current_dir_contents(f, t, tab_index, old) }
    ELSE { [ok |-> TRUE, current_tab |-> ct, selected_item |-> sel, contents |-> old] }

-----------------------------------------------------------------------------
(* Key events *)

Char(c) == [code |-> "Char", c |-> c]
Key(code) == [code |-> code, c |-> ""]

DigitChars == <<"0", "1", "2", "3", "4", "5", "6", "7", "8", "9">>

KeyCodes ==
    { Char(c) : c \in {"q", "y", "n", "o"} \cup { DigitChars[i] : i \in 1 .. 10 } }
    \cup { Key(code) : code \in {"Up", "Down", "Enter", "Esc", "Tab"} }

\* char::to_digit(10)
to_digit(c) ==
    IF \E i \in 1 .. 10 : DigitChars[i] = c
    THEN Some((CHOOSE i \in 1 .. 10 : DigitChars[i] = c) - 1)
    ELSE None

\* the arm of `match key.code` that handles k: the first arm, in source order,
\* whose pattern and guard accept it
MatchArm(k) ==
    IF k = Char("q") THEN "quit"                                   \* line 288
    ELSE IF k.code = "Char" THEN "char"                            \* line 289
    ELSE IF k.code = "Up" THEN "up"                                \* line 297
    ELSE IF k.code = "Down" THEN "down"                            \* line 308
    ELSE IF k.code = "Enter" THEN "enter"                          \* line 319
    ELSE IF k = Char("y") /\ show_confirmation THEN "yes"          \* line 324
    ELSE IF k = Char("n") /\ show_confirmation THEN "no"           \* line 339
    ELSE IF k.code = "Esc" THEN "esc"                              \* line 342
    ELSE "other"                                                   \* line 343

\* the keyboard: the user may type anything at any time
FreeInput == [free |-> TRUE, keys |-> <<>>]
\* the keyboard: the user types exactly these keys
Typed(keys) == [free |-> FALSE, keys |-> keys]

\* an event is waiting to be read
EventWaiting == input.free \/ input.keys # <<>>
Offers(k) == input.free \/ (input.keys # <<>> /\ k = Head(input.keys))
Consumed == IF input.free THEN input ELSE Typed(Tail(input.keys))

-----------------------------------------------------------------------------
(* The cursor *)

\* a Down handler that wraps to the first entry after the last
DownWraps(selected, len) ==
    IF selected = None THEN Some(0)
    ELSE IF selected[1] < len - 1 THEN Some(selected[1] + 1)
    ELSE Some(0)

\* KeyCode::Down on a list of len >= 1 entries (len - 1 does not overflow)
DownSelected(selected, len) ==
    IF selected = None THEN Some(0)
    ELSE IF selected[1] < len - 1 THEN Some(selected[1] + 1)
    ELSE selected

\* KeyCode::Up
UpSelected(selected) ==
    IF selected = None THEN Some(0)
    ELSE IF selected[1] > 0 THEN Some(selected[1] - 1)
    ELSE selected

\* `len - 1` on usize overflows: len is 0 and the subtraction is evaluated
DownOverflows == selected_item # None /\ Len(current_dir_contents) = 0

-----------------------------------------------------------------------------
(* main *)

Running == {"draw", "poll", "read"}
Exited == {"exited_ok", "exited_err", "panicked"}

Init ==
    /\ fs \in FileSystems
    /\ home \in {None, Some(<<47, 104>>)}
    /\ input = FreeInput
    /\ pc = "enable_raw"
    /\ raw_mode = FALSE
    /\ alt_screen = FALSE
    /\ tabs = <<>>
    /\ current_tab = 0
    /\ show_content = TRUE
    /\ show_editor_selection = FALSE
    /\ selected_editor = 0
    /\ current_dir_contents = <<>>
    /\ selected_item = None
    /\ show_confirmation = FALSE
    /\ spawned = <<>>
    /\ self_path = BASE_PATH
    /\ expanded = None

\* a fallible call followed by `?`: main returns the Err, running nothing after it
Fails(at) ==
    /\ pc = at
    /\ pc' = "exited_err"
    /\ UNCHANGED <<env, input, term, app, spawned>>

\* enable_raw_mode()?
EnableRawMode ==
    /\ pc = "enable_raw"
    /\ raw_mode' = TRUE
    /\ pc' = "enter_alt"
    /\ UNCHANGED <<env, input, alt_screen, app, spawned>>

\* stdout().execute(EnterAlternateScreen)?
EnterAlternateScreen ==
    /\ pc = "enter_alt"
    /\ alt_screen' = TRUE
    /\ pc' = "terminal_new"
    /\ UNCHANGED <<env, input, raw_mode, app, spawned>>

\* Terminal::new(backend)?
TerminalNew ==
    /\ pc = "terminal_new"
    /\ pc' = "app_new"
    /\ UNCHANGED <<env, input, term, app, spawned>>

\* App::new()?
AppNew ==
    /\ pc = "app_new"
    /\ \E a \in new(fs) :
        /\ pc' = IF a.ok THEN "draw" ELSE "exited_err"
        /\ tabs' = a.tabs
        /\ current_dir_contents' = a.contents
    /\ UNCHANGED <<env, input, term, current_tab, show_content, show_editor_selection,
                   selected_editor, selected_item, show_confirmation, spawned>>

\* app.tabs[app.current_tab] in the content pane's title is out of range
DrawPanics == show_content /\ current_tab >= Len(tabs)

\* terminal.draw(..)?: renders one frame from the state, changing none of it
Draw ==
    /\ pc = "draw"
    /\ pc' = IF DrawPanics THEN "panicked" ELSE "poll"
    /\ UNCHANGED <<env, input, term, app, spawned>>

\* event::poll(100 ms)? returns true: an event is waiting
PollReady ==
    /\ pc = "poll"
    /\ EventWaiting
    /\ pc' = "read"
    /\ UNCHANGED <<env, input, term, app, spawned>>

\* a poll without a timeout: it never returns false
PollBlocks ==
    /\ pc = "poll"
    /\ FALSE
    /\ pc' = "draw"
    /\ UNCHANGED <<env, input, term, app, spawned>>

\* event::poll(100 ms)? returns false: the timeout passed with no event
PollTimeout ==
    /\ pc = "poll"
    /\ pc' = "draw"
    /\ UNCHANGED <<env, input, term, app, spawned>>

\* event::read()? returns an event that is no key (a resize, the mouse)
ReadOther ==
    /\ pc = "read"
    /\ pc' = "draw"
    /\ UNCHANGED <<env, input, term, app, spawned>>

\* the argument list of Command::new("alacritty").args(&["-e", "nvim"]).arg(path)
SpawnArgs(path) == [program |-> "alacritty", args |-> <<"-e", "nvim">>, path |-> path]

\* the path the 'y' arm opens
OpenPath ==
    join(join(expand_home(BASE_PATH, home), tabs[current_tab + 1]),
         current_dir_contents[selected_item[1] + 1].name)

\* event::read()? returns Event::Key(k), and `match key.code` handles it
HandleKey(k) ==
    /\ pc = "read"
    /\ Offers(k)
    /\ input' = Consumed
    /\ UNCHANGED <<env, term, tabs, show_content, selected_editor>>
    /\ LET arm == MatchArm(k) IN
       CASE arm = "quit" ->
            /\ pc' = "disable_raw"
            /\ UNCHANGED <<current_tab, current_dir_contents, selected_item,
                           show_confirmation, show_editor_selection, spawned>>
         [] arm = "char" ->
            LET digit == to_digit(k.c) IN
            IF digit # None /\ digit[1] > 0 /\ digit[1] <= 9
            THEN /\ \E o \in switch_tab(fs, tabs, current_tab, selected_item,
                                        current_dir_contents, digit[1] - 1) :
                     /\ pc' = IF o.ok THEN "draw" ELSE "exited_err"
                     /\ current_tab' = o.current_tab
                     /\ selected_item' = o.selected_item
                     /\ current_dir_contents' = o.contents
                 /\ UNCHANGED <<show_confirmation, show_editor_selection, spawned>>
            ELSE /\ pc' = "draw"
                 /\ UNCHANGED <<current_tab, current_dir_contents, selected_item,
                                show_confirmation, show_editor_selection, spawned>>
         [] arm = "up" ->
            /\ pc' = "draw"
            /\ selected_item' = IF show_content THEN UpSelected(selected_item)
                                ELSE selected_item
            /\ UNCHANGED <<current_tab, current_dir_contents, show_confirmation,
                           show_editor_selection, spawned>>
         [] arm = "down" ->
            /\ IF show_content /\ DownOverflows
               THEN \* a build with overflow checks panics at `len - 1`; one without
                    \* them wraps it to usize::MAX, above every cursor value
                    \E overflow_checks \in BOOLEAN :
                        IF overflow_checks
                        THEN pc' = "panicked" /\ selected_item' = selected_item
                        ELSE /\ selected_item[1] < MaxCursor
                             /\ pc' = "draw"
                             /\ selected_item' = Some(selected_item[1] + 1)
               ELSE /\ pc' = "draw"
                    /\ selected_item' =
                           IF show_content
                           THEN DownSelected(selected_item, Len(current_dir_contents))
                           ELSE selected_item
            /\ UNCHANGED <<current_tab, current_dir_contents, show_confirmation,
                           show_editor_selection, spawned>>
         [] arm = "enter" ->
            /\ pc' = "draw"
            /\ show_confirmation' = IF show_content /\ selected_item # None THEN FALSE
                                    ELSE show_confirmation
            /\ UNCHANGED <<current_tab, current_dir_contents, selected_item,
                           show_editor_selection, spawned>>
         [] arm = "yes" ->
            /\ IF selected_item = None
               THEN pc' = "draw" /\ show_confirmation' = FALSE /\ spawned' = spawned
               ELSE IF selected_item[1] >= Len(current_dir_contents)
               THEN pc' = "panicked" /\ UNCHANGED <<show_confirmation, spawned>>
               ELSE \E spawn_ok \in BOOLEAN :
                        IF spawn_ok
                        THEN /\ pc' = "draw"
                             /\ spawned' = Append(spawned, SpawnArgs(OpenPath))
                             /\ show_confirmation' = FALSE
                        ELSE pc' = "exited_err" /\ UNCHANGED <<show_confirmation, spawned>>
            /\ UNCHANGED <<current_tab, current_dir_contents, selected_item,
                           show_editor_selection>>
         [] arm = "no" ->
            /\ pc' = "draw"
            /\ show_confirmation' = FALSE
            /\ UNCHANGED <<current_tab, current_dir_contents, selected_item,
                           show_editor_selection, spawned>>
         [] arm = "esc" ->
            /\ pc' = "draw"
            /\ show_editor_selection' = FALSE
            /\ UNCHANGED <<current_tab, current_dir_contents, selected_item,
                           show_confirmation, spawned>>
         [] OTHER ->
            /\ pc' = "draw"
            /\ UNCHANGED <<current_tab, current_dir_contents, selected_item,
                           show_confirmation, show_editor_selection, spawned>>

\* disable_raw_mode()?
DisableRawMode ==
    /\ pc = "disable_raw"
    /\ raw_mode' = FALSE
    /\ pc' = "leave_alt"
    /\ UNCHANGED <<env, input, alt_screen, app, spawned>>

\* stdout().execute(LeaveAlternateScreen)?; Ok(())
LeaveAlternateScreen ==
    /\ pc = "leave_alt"
    /\ alt_screen' = FALSE
    /\ pc' = "exited_ok"
    /\ UNCHANGED <<env, input, raw_mode, app, spawned>>

\* the terminal calls of main that end in `?`
TerminalCalls ==
    {"enable_raw", "enter_alt", "terminal_new", "draw", "poll", "read",
     "disable_raw", "leave_alt"}

\* one of them returns Err
TerminalFails == \E at \in TerminalCalls : Fails(at)

Next ==
    \/ EnableRawMode
    \/ EnterAlternateScreen
    \/ TerminalNew
    \/ AppNew
    \/ Draw
    \/ PollReady
    \/ PollTimeout
    \/ \E k \in KeyCodes : HandleKey(k)
    \/ ReadOther
    \/ DisableRawMode
    \/ LeaveAlternateScreen
    \/ TerminalFails

Spec == Init /\ [][Next]_vars

-----------------------------------------------------------------------------
(* The open flow: the user types Down, Enter, y and then quits *)

OpenFlowKeys == <<Key("Down"), Key("Enter"), Char("y"), Char("q")>>

InitOpen ==
    /\ fs \in FileSystems
    /\ home \in {None, Some(<<47, 104>>)}
    /\ input = Typed(OpenFlowKeys)
    /\ pc = "enable_raw"
    /\ raw_mode = FALSE
    /\ alt_screen = FALSE
    /\ tabs = <<>>
    /\ current_tab = 0
    /\ show_content = TRUE
    /\ show_editor_selection = FALSE
    /\ selected_editor = 0
    /\ current_dir_contents = <<>>
    /\ selected_item = None
    /\ show_confirmation = FALSE
    /\ spawned = <<>>
    /\ self_path = BASE_PATH
    /\ expanded = None

SpecOpen == InitOpen /\ [][Next]_vars

-----------------------------------------------------------------------------
(* The listing order: one project directory holding entries of mixed kind and case *)

\* B a aB ab b, each as a directory and as a file
ListingEntries ==
    { DirEntry(n, d) : n \in {<<66>>, <<97>>, <<97, 66>>, <<97, 98>>, <<98>>},
                       d \in BOOLEAN }

\* a directory holds up to MaxListing entries, no two of the same name
ListingDirs ==
    { S \in SUBSET ListingEntries :
        /\ Cardinality(S) <= MaxListing
        /\ \A a, b \in S : a # b => a.name # b.name }

ListingFileSystems ==
    { [base_ok |-> TRUE,
       projects |-> << [name |-> ProjName(1), readable |-> TRUE, contents |-> S] >>] :
      S \in ListingDirs }

InitListing ==
    /\ fs \in ListingFileSystems
    /\ home \in {None, Some(<<47, 104>>)}
    /\ input = FreeInput
    /\ pc = "enable_raw"
    /\ raw_mode = FALSE
    /\ alt_screen = FALSE
    /\ tabs = <<>>
    /\ current_tab = 0
    /\ show_content = TRUE
    /\ show_editor_selection = FALSE
    /\ selected_editor = 0
    /\ current_dir_contents = <<>>
    /\ selected_item = None
    /\ show_confirmation = FALSE
    /\ spawned = <<>>
    /\ self_path = BASE_PATH
    /\ expanded = None

SpecListing == InitListing /\ [][Next]_vars

-----------------------------------------------------------------------------
(* The idle loop: the user types Down and Up and then nothing more, and no terminal
   call fails *)

IdleKeys == <<Key("Down"), Key("Up")>>

InitIdle ==
    /\ fs \in FileSystems
    /\ home \in {None, Some(<<47, 104>>)}
    /\ input = Typed(IdleKeys)
    /\ pc = "enable_raw"
    /\ raw_mode = FALSE
    /\ alt_screen = FALSE
    /\ tabs = <<>>
    /\ current_tab = 0
    /\ show_content = TRUE
    /\ show_editor_selection = FALSE
    /\ selected_editor = 0
    /\ current_dir_contents = <<>>
    /\ selected_item = None
    /\ show_confirmation = FALSE
    /\ spawned = <<>>
    /\ self_path = BASE_PATH
    /\ expanded = None

NextIdle ==
    \/ EnableRawMode
    \/ EnterAlternateScreen
    \/ TerminalNew
    \/ AppNew
    \/ Draw
    \/ PollReady
    \/ PollTimeout
    \/ \E k \in KeyCodes : HandleKey(k)
    \/ ReadOther

\* each call of the loop returns: draw renders and returns, poll returns within its
\* timeout, read returns the event that poll announced
SpecIdle ==
    /\ InitIdle
    /\ [][NextIdle]_vars
    /\ WF_vars(Draw)
    /\ WF_vars(PollReady \/ PollTimeout)
    /\ WF_vars(ReadOther \/ \E k \in KeyCodes : HandleKey(k))

-----------------------------------------------------------------------------
(* Home expansion: expand_home called once on a path *)

\* the paths of up to MaxPathLen bytes over ~ / a and the byte 255
Paths ==
    UNION { [1 .. n -> {126, 47, 97, 255}] : n \in 0 .. MaxPathLen }

\* dirs::home_dir(): unknown, "/h", "/" or "~/h"
Homes == {None, Some(<<47, 104>>), Some(<<47>>), Some(<<126, 47, 104>>)}

InitExpand ==
    /\ fs = [base_ok |-> FALSE, projects |-> <<>>]
    /\ home \in Homes
    /\ input = FreeInput
    /\ pc = "expand_home"
    /\ raw_mode = FALSE
    /\ alt_screen = FALSE
    /\ tabs = <<>>
    /\ current_tab = 0
    /\ show_content = TRUE
    /\ show_editor_selection = FALSE
    /\ selected_editor = 0
    /\ current_dir_contents = <<>>
    /\ selected_item = None
    /\ show_confirmation = FALSE
    /\ spawned = <<>>
    /\ self_path \in Paths
    /\ expanded = None

\* self.expand_home()
ExpandHome ==
    /\ pc = "expand_home"
    /\ expanded' = Some(expand_home(self_path, home))
    /\ pc' = "expanded"
    /\ UNCHANGED <<fs, home, self_path, input, term, app, spawned>>

SpecExpand == InitExpand /\ [][ExpandHome]_vars

-----------------------------------------------------------------------------
(* Properties *)

Range(s) == { s[i] : i \in 1 .. Len(s) }
Min(a, b) == IF a < b THEN a ELSE b
Max(a, b) == IF a > b THEN a ELSE b

\* every order in which a directory holding exactly S can be read in full
AllOrders(S) == { y \in ReadDirYields(S) : Len(y) = Cardinality(S) }

\* the sorted listing of a directory holding exactly S
SortedListing(S) == sort_by(CHOOSE y \in AllOrders(S) : TRUE)

\* a comes strictly before b in case-sensitive lexicographic order
LexLess(a, b) ==
    \E k \in 1 .. (Min(Len(a), Len(b)) + 1) :
        /\ \A i \in 1 .. (k - 1) : a[i] = b[i]
        /\ \/ k = Len(a) + 1 /\ k <= Len(b)
           \/ k <= Len(a) /\ k <= Len(b) /\ a[k] < b[k]

SelectionInRange ==
    selected_item = None
    \/ (0 <= selected_item[1] /\ selected_item[1] < Len(current_dir_contents))

\* C1: in every reachable state selected_item is None or Some(i) with
\* 0 <= i < len(current_dir_contents).
C1_SelectionCursorInvariant == SelectionInRange

\* C2: with an empty entry list, Up and Down leave selected_item at None and raise
\* no error, and the Down handler never evaluates len - 1 with len = 0.
C2_EmptyListCursorStaysNone ==
    [][ \A k \in {Key("Up"), Key("Down")} :
          (HandleKey(k) /\ Len(current_dir_contents) = 0)
          => (selected_item' = None /\ pc' = "draw" /\ ~DownOverflows) ]_vars

\* C3: Enter with the content pane visible and an entry selected opens a popup
\* (the confirmation or the editor choice) and spawns no process.
C3_EnterOpensConfirmation ==
    [][ (/\ HandleKey(Key("Enter"))
         /\ show_content
         /\ selected_item # None
         /\ SelectionInRange)
        => ((show_confirmation' \/ show_editor_selection') /\ spawned' = spawned) ]_vars

\* C4: from a non-empty entry list, once Down, Enter and y have been handled exactly
\* one process has been spawned and the confirmation popup is closed.
C4_OpenFlowCompletes ==
    (/\ input = Typed(<<Char("q")>>)
     /\ pc = "draw"
     /\ Len(current_dir_contents) > 0)
    => (Len(spawned) = 1 /\ ~show_confirmation)

\* No assignment sets a popup flag, so the arm that spawns is never entered: in
\* every reachable state both popups are closed and nothing has been spawned.
PopupNeverOpens == ~show_confirmation /\ ~show_editor_selection /\ spawned = <<>>

\* C6: a digit key d in 1..9 with d-1 < len(tabs), handled in any state, sets
\* current_tab to d-1, installs exactly the sorted contents of that project's
\* directory and sets selected_item to None.
C6_TabSwitchInstallsListing ==
    [][ \A d \in 1 .. 9 :
          (HandleKey(Char(DigitChars[d + 1])) /\ d - 1 < Len(tabs) /\ pc' = "draw")
          => /\ current_tab' = d - 1
             /\ selected_item' = None
             /\ current_dir_contents' =
                    SortedListing(ProjectDir(fs, tabs[d]).contents) ]_vars

\* C7: q ends the event loop, no key is handled after it, and the program then
\* exits with raw mode disabled and the alternate screen left.
C7_QuitRestoresTerminal ==
    [][ /\ HandleKey(Char("q")) => pc' = "disable_raw"
        /\ pc \in {"disable_raw", "leave_alt"}
           => /\ pc' \notin Running
              /\ pc' \in Exited => (~raw_mode' /\ ~alt_screen') ]_vars

\* C8: on every exit of main after the terminal was set up, failures included,
\* raw mode is disabled and the alternate screen is left.
C8_TerminalRestoredOnEveryExit ==
    [][ (pc \in {"app_new", "draw", "poll", "read", "disable_raw", "leave_alt"}
         /\ pc' \in Exited)
        => (~raw_mode' /\ ~alt_screen') ]_vars

\* C9: on a list of n >= 1 entries Down maps None to Some(0) and Some(i) to
\* Some(min(i+1, n-1)), Up maps None to Some(0) and Some(i) to Some(max(i-1, 0)),
\* and the cursor never leaves [0, n-1].
C9_CursorMovement ==
    /\ [](Len(current_dir_contents) > 0 => SelectionInRange)
    /\ [][ LET n == Len(current_dir_contents) IN
           n > 0 =>
             /\ HandleKey(Key("Down"))
                => selected_item' = IF selected_item = None THEN Some(0)
                                    ELSE Some(Min(selected_item[1] + 1, n - 1))
             /\ HandleKey(Key("Up"))
                => selected_item' = IF selected_item = None THEN Some(0)
                                    ELSE Some(Max(selected_item[1] - 1, 0)) ]_vars

\* C9 witness: the cursor has been moved down to the last of several entries
C9_Witness ==
    /\ pc \in Running
    /\ Len(current_dir_contents) >= 2
    /\ selected_item = Some(Len(current_dir_contents) - 1)

\* C10: the entry list has all directories before all files, each group in
\* ascending case-sensitive lexicographic order of name, and is the same for every
\* order in which the filesystem returns the entries.
C10_ListingOrder ==
    LET c == current_dir_contents IN
    /\ \A i, j \in 1 .. Len(c) :
         i < j => /\ c[i].is_dir \/ ~c[j].is_dir
                  /\ c[i].is_dir = c[j].is_dir => LexLess(c[i].name, c[j].name)
    /\ \A y \in AllOrders(Range(c)) : sort_by(y) = c

\* C10 witness: a full listing of mixed kind and case: a file "B", a file "a"
\* and a directory "b"
C10_Witness ==
    /\ pc \in Running
    /\ Range(current_dir_contents) =
           {DirEntry(<<66>>, FALSE), DirEntry(<<97>>, FALSE), DirEntry(<<98>>, TRUE)}

\* the character of the digit d
Digit(d) == Char(DigitChars[d + 1])

\* the directory of the project of the current tab
CurrentProject == ProjectDir(fs, tabs[current_tab + 1])

\* C11: a listing that succeeds (at startup or on a tab switch) installs every
\* entry of the project directory; a read that lost an entry does not succeed.
C11_ListingAllOrNothing ==
    [][ (/\ \/ AppNew
            \/ \E d \in 1 .. 9 : HandleKey(Digit(d)) /\ d - 1 < Len(tabs)
         /\ pc' = "draw"
         /\ tabs' # <<>>)
        => Range(current_dir_contents') = CurrentProject'.contents ]_vars

\* C13: a failure ends the run at once: switching to a project whose directory
\* cannot be read ends main with the error (the project is not skipped), and
\* after main has ended with an error or a panic no key is handled and no frame
\* is drawn.
C13_FailFast ==
    [][ /\ pc \notin {"exited_err", "panicked"}
        /\ \A d \in 1 .. 9 :
             (/\ d - 1 < Len(tabs)
              /\ ~ProjectDir(fs, tabs[d]).readable
              /\ HandleKey(Digit(d)))
             => pc' = "exited_err" ]_vars

\* C13 witness: main has ended with the error of a switch to the second tab,
\* whose directory is unreadable
C13_Witness ==
    /\ pc = "exited_err"
    /\ current_tab = 1
    /\ ~CurrentProject.readable

\* C14: the key 0, or a digit d with d-1 >= len(tabs), changes nothing of the
\* application state and cannot fail (no directory is read).
C14_OutOfRangeDigitIsNoOp ==
    [][ pc = "read" =>
          \A d \in 0 .. 9 :
            ((d = 0 \/ d - 1 >= Len(tabs)) /\ HandleKey(Digit(d)))
            => (UNCHANGED app /\ pc' = "draw") ]_vars

\* C14 witness: a key is being handled with one tab and the cursor on the second
\* of two entries, so that every digit but 1 is out of range and has a cursor and a
\* list to preserve
C14_Witness ==
    /\ pc = "read"
    /\ Len(tabs) = 1
    /\ selected_item = Some(1)
    /\ Len(current_dir_contents) = 2

\* C17: whenever a frame is rendered with the content pane visible,
\* current_tab < len(tabs), also when the base directory holds no project.
C17_TabIndexValidAtRender ==
    (pc = "draw" /\ show_content) => current_tab < Len(tabs)

\* C18: while the event loop runs current_dir_contents is the sorted listing of
\* the directory of tabs[current_tab], and cursor keys, Enter, y, n and Esc never
\* change tabs, current_tab or current_dir_contents.
C18_EntryListMatchesTab ==
    /\ []((pc \in Running /\ tabs # <<>>)
          => current_dir_contents = SortedListing(CurrentProject.contents))
    /\ [][ \A k \in {Key("Up"), Key("Down"), Key("Enter"), Key("Esc"),
                     Char("y"), Char("n")} :
             HandleKey(k) => UNCHANGED <<tabs, current_tab, current_dir_contents>> ]_vars

\* C15: an iteration renders a frame, then polls, then handles at most one key; the
\* frame and a poll change no application state; with render and poll not failing
\* every poll and read is followed by the next frame and every frame by the next
\* poll, so frames are rendered again and again also when no input arrives.
C15_EventLoopShape ==
    /\ [][ /\ pc = "draw" => (pc' \in {"poll", "panicked"} /\ UNCHANGED <<app, input>>)
           /\ pc = "poll" => (pc' \in {"read", "draw"} /\ UNCHANGED <<app, input>>)
           /\ pc = "read" => (/\ pc' = "draw"
                              /\ Len(input.keys) - Len(input'.keys) \in {0, 1}) ]_vars
    /\ (pc \in {"poll", "read"}) ~> (pc = "draw")
    /\ (pc = "draw" /\ tabs # <<>>) ~> (pc = "poll")

\* C15 witness: both keys were handled, a frame was rendered after them and the
\* loop polls with no input left
C15_Witness ==
    /\ pc = "poll"
    /\ input = Typed(<<>>)
    /\ tabs # <<>>
    /\ selected_item = Some(0)

\* the text of the path after its first two bytes
AfterTilde == SubSeq(self_path, 3, Len(self_path))

\* C16: expand_home returns home joined with the rest of p after "~/" when p starts
\* with "~/" and a home directory is known, and p unchanged otherwise; it never
\* fails and does not expand its result again.
C16_ExpandHome ==
    pc = "expanded" =>
        expanded = Some(IF starts_with(self_path, <<126, 47>>) /\ home # None
                        THEN join(home[1], AfterTilde)
                        ELSE self_path)

\* C16 as amended: the expansion happens only when p is also valid UTF-8; a path
\* that is not is returned unchanged.
C16_ExpandHomeUtf8 ==
    pc = "expanded" =>
        expanded = Some(IF /\ \A i \in 1 .. Len(self_path) : self_path[i] # 255
                           /\ starts_with(self_path, <<126, 47>>)
                           /\ home # None
                        THEN join(home[1], AfterTilde)
                        ELSE self_path)

\* C16 witness: "~/a" has been expanded under the home "~/h" to "~/h/a", which
\* starts with "~/" again and was returned as it is
C16_Witness ==
    /\ pc = "expanded"
    /\ self_path = <<126, 47, 97>>
    /\ home = Some(<<126, 47, 104>>)
    /\ expanded = Some(<<126, 47, 104, 47, 97>>)

====
